---- MODULE Spec2Model ----
(***************************************************************************)
(* TypeTranspiler (rests/typescript/type_transpiler.py): the rendering of  *)
(* a host-side type descriptor as a TypeScript type expression.            *)
(*                                                                         *)
(* A Python value handled by the transpiler is a record                    *)
(*   [tup, kind, cls, rel, items]                                          *)
(*   kind = "class"   the class object named cls                           *)
(*   kind = "inst"    a value whose type is the class cls; rel is the name *)
(*                    of related_model for a relationship field, else ""   *)
(*   kind = "none"    the None singleton                                   *)
(*   kind = "generic" a parameterized descriptor: origin marker cls and    *)
(*                    the argument sequence items                          *)
(*   kind = "tuple"   a Python tuple of the values items (tup = TRUE)      *)
(* The outcome of a call is a record [tag, val]: tag "ok" with the string  *)
(* returned, tag "raise" with the name of the exception, or tag "none"     *)
(* when the call returns None.                                             *)
(***************************************************************************)
EXTENDS Integers, Sequences, FiniteSets, TLC

VARIABLES type_, pc, result, calls

vars == <<type_, pc, result, calls>>

(***************************************************************************)
(* Bounds of the checked input space.                                      *)
(***************************************************************************)
MaxArity == 2

(***************************************************************************)
(* rests.typescript.types: the literal TypeScript tokens.                  *)
(***************************************************************************)
types_STRING == "string"
types_NUMBER == "number"
types_BOOLEAN == "boolean"
types_OBJECT == "object"
types_NULL == "null"
types_DATE == "Date"
types_UNDEFINED == "undefined"
types_ARRAY == "Array"
types_PROMISE == "Promise"

(***************************************************************************)
(* Python values and call outcomes.                                        *)
(***************************************************************************)
ClassObj(c) == [tup |-> FALSE, kind |-> "class", cls |-> c, rel |-> "", items |-> <<>>]
Inst(c) == [tup |-> FALSE, kind |-> "inst", cls |-> c, rel |-> "", items |-> <<>>]
RelInst(c, m) == [tup |-> FALSE, kind |-> "inst", cls |-> c, rel |-> m, items |-> <<>>]
NoneVal == [tup |-> FALSE, kind |-> "none", cls |-> "NoneType", rel |-> "", items |-> <<>>]
Tuple(s) == [tup |-> TRUE, kind |-> "tuple", cls |-> "tuple", rel |-> "", items |-> s]
Generic(o, s) == [tup |-> FALSE, kind |-> "generic", cls |-> o, rel |-> "", items |-> s]

Ok(s) == [tag |-> "ok", val |-> s]
Raise(e) == [tag |-> "raise", val |-> e]
ReturnsNone == [tag |-> "none", val |-> "None"]

(***************************************************************************)
(* The class hierarchy the isinstance / issubclass tests consult: the      *)
(* direct bases of every class that is registered or used as a probe       *)
(* (Python builtins, Django 2.2 model fields, two application models and   *)
(* an application field).                                                  *)
(***************************************************************************)
Bases(c) ==
    CASE c = "bool" -> {"int"}
      [] c \in {"SlugField", "EmailField", "URLField"} -> {"CharField"}
      [] c \in {"SmallIntegerField", "BigIntegerField", "PositiveIntegerField",
                "PositiveSmallIntegerField"} -> {"IntegerField"}
      [] c = "BigAutoField" -> {"AutoField"}
      [] c = "NullBooleanField" -> {"BooleanField"}
      [] c = "DateTimeField" -> {"DateField"}
      [] c = "OneToOneField" -> {"ForeignKey"}
      [] c = "RelatedIn" -> {"In"}
      [] c = "ImageField" -> {"FileField"}
      [] c \in {"Author", "Book"} -> {"Model"}
      [] c \in {"JSONField", "ArrayField", "CharField", "FileField", "TextField",
                "UUIDField", "IntegerField", "DecimalField", "FloatField",
                "AutoField", "BooleanField", "DateField", "ForeignKey"} -> {"Field"}
      [] c = "object" -> {}
      [] OTHER -> {"object"}

RECURSIVE Mro(_)
Mro(c) == {c} \cup UNION {Mro(b) : b \in Bases(c)}

issubclass(c, k) == k \in Mro(c)

isclass(x) == x.kind = "class"

\* type(x): the name of the class of the value x
type(x) ==
    CASE x.kind = "class" -> "type"
      [] x.kind = "generic" -> "_GenericAlias"
      [] OTHER -> x.cls

isinstance(x, k) == issubclass(type(x), k)

(***************************************************************************)
(* ATOMIC_TYPES, in definition order.  The key None is written "None".     *)
(* A renderer is a literal string (fn = "") or one of the two lambdas.     *)
(***************************************************************************)
Lit(k, s) == [key |-> k, fn |-> "", lit |-> s]
Fn(k, f) == [key |-> k, fn |-> f, lit |-> ""]

ATOMIC_TYPES ==
    << Lit("str", types_STRING),
       Lit("int", types_NUMBER),
       Lit("float", types_NUMBER),
       Lit("bool", types_BOOLEAN),
       Lit("dict", types_OBJECT),
       Lit("None", types_NULL),
       Lit("datetime", types_DATE),
       Lit("Undefined", types_UNDEFINED),
       Lit("JSONField", types_OBJECT),
       Lit("ArrayField", types_ARRAY),
       Lit("CharField", types_STRING),
       Lit("FileField", types_STRING),
       Lit("TextField", types_STRING),
       Lit("UUIDField", types_STRING),
       Lit("SlugField", types_STRING),
       Lit("SmallIntegerField", types_STRING),
       Lit("BigIntegerField", types_NUMBER),
       Lit("EmailField", types_STRING),
       Lit("URLField", types_STRING),
       Lit("IntegerField", types_NUMBER),
       Lit("PositiveIntegerField", types_NUMBER),
       Lit("PositiveSmallIntegerField", types_NUMBER),
       Lit("DecimalField", types_NUMBER),
       Lit("FloatField", types_NUMBER),
       Lit("AutoField", types_NUMBER),
       Lit("BigAutoField", types_NUMBER),
       Lit("BooleanField", types_BOOLEAN),
       Lit("NullBooleanField", types_BOOLEAN \o " | " \o types_NULL),
       Lit("DateTimeField", types_DATE),
       Lit("DateField", types_DATE),
       Fn("ForeignKey", "related_model.__name__"),
       Fn("OneToOneField", "related_model.__name__"),
       Fn("ManyToOneRel", "related_model.__name__"),
       Fn("Model", "__name__") >>

AtomicKeys == {ATOMIC_TYPES[i].key : i \in 1..Len(ATOMIC_TYPES)}

\* the position of a key in the table's definition order
KeyIndex(k) == CHOOSE i \in 1..Len(ATOMIC_TYPES) : ATOMIC_TYPES[i].key = k

\* ATOMIC_TYPES[k]
AtomicEntry(k) == ATOMIC_TYPES[KeyIndex(k)]

\* the call ATOMIC_TYPES[k](x) of a function renderer
CallRenderer(e, x) ==
    IF e.fn = "__name__"
    THEN IF x.kind = "class" THEN Ok(x.cls) ELSE Raise("AttributeError")
    ELSE IF x.kind = "inst" /\ x.rel # "" THEN Ok(x.rel) ELSE Raise("AttributeError")

(***************************************************************************)
(* _get_atomic_type: the first key, in definition order, that the          *)
(* descriptor is an instance of; the key None is skipped.                  *)
(***************************************************************************)
RECURSIVE ScanAtomic(_, _)
ScanAtomic(x, i) ==
    IF i > Len(ATOMIC_TYPES) THEN Raise("TranspileError")
    ELSE IF ATOMIC_TYPES[i].key = "None" THEN ScanAtomic(x, i + 1)
    ELSE IF isinstance(x, ATOMIC_TYPES[i].key) THEN Ok(ATOMIC_TYPES[i].key)
    ELSE ScanAtomic(x, i + 1)

\* a scan that keeps the last matching key instead of the first
_get_atomic_type_last(x) ==
    LET hits == {i \in 1..Len(ATOMIC_TYPES) :
                   ATOMIC_TYPES[i].key # "None" /\ isinstance(x, ATOMIC_TYPES[i].key)}
    IN  IF hits = {} THEN Raise("TranspileError")
        ELSE Ok(ATOMIC_TYPES[CHOOSE i \in hits : \A j \in hits : j <= i].key)

\* a scan that falls back to the first key instead of raising
_get_atomic_type_default(x) ==
    IF ScanAtomic(x, 1).tag = "raise" THEN Ok(ATOMIC_TYPES[1].key) ELSE ScanAtomic(x, 1)

_get_atomic_type(x) == ScanAtomic(x, 1)

(***************************************************************************)
(* render_atomic_type                                                      *)
(***************************************************************************)
\* a renderer function called with the probe class instead of the descriptor
ApplyAtomic_base_type(k, x) ==
    IF AtomicEntry(k).fn # "" THEN CallRenderer(AtomicEntry(k), ClassObj(k))
    ELSE Ok(AtomicEntry(k).lit)

\* the renderer ATOMIC_TYPES[k] applied for the descriptor x
ApplyAtomic(k, x) ==
    IF AtomicEntry(k).fn # "" THEN CallRenderer(AtomicEntry(k), x)
    ELSE Ok(AtomicEntry(k).lit)

render_atomic_type(x) ==
    LET base_type == IF ~isclass(x) THEN type(x) ELSE x.cls
    IN  IF issubclass(base_type, "Model") THEN ApplyAtomic("Model", x)
        ELSE LET r == _get_atomic_type(x)
             IN  IF r.tag = "raise" THEN r ELSE ApplyAtomic(r.val, x)

(***************************************************************************)
(* CONTAINER_TYPES and COMPOSITE_TYPES: the registered origin markers and  *)
(* their renderers.                                                        *)
(***************************************************************************)
CONTAINER_TYPES == {"List", "Promise", "In", "RelatedIn", "Range"}

\* every container rendered with the List template
ContainerRender_array(k, x) == types_ARRAY \o "<" \o x \o ">"

ContainerRender(k, x) ==
    CASE k = "List" -> types_ARRAY \o "<" \o x \o ">"
      [] k = "Promise" -> types_PROMISE \o "<" \o x \o ">"
      [] k = "In" -> x \o "[]"
      [] k = "RelatedIn" -> x \o "[]"
      [] k = "Range" -> "[" \o x \o ", " \o x \o "]"

COMPOSITE_TYPES == {"tuple", "Union"}

\* sep.join(xs)
RECURSIVE Join(_, _)
Join(xs, sep) ==
    IF Len(xs) = 0 THEN ""
    ELSE IF Len(xs) = 1 THEN xs[1]
    ELSE xs[1] \o sep \o Join(Tail(xs), sep)

\* xs without its repeated members
RECURSIVE Dedup(_)
Dedup(xs) ==
    IF Len(xs) = 0 THEN <<>>
    ELSE LET front == Dedup(SubSeq(xs, 1, Len(xs) - 1))
         IN  IF \E i \in 1..(Len(xs) - 1) : xs[i] = xs[Len(xs)] THEN front
             ELSE Append(front, xs[Len(xs)])

\* a join that drops repeated members
CompositeRender_dedup(k, xs) ==
    IF k = "tuple" THEN Join(Dedup(xs), ", ") ELSE Join(Dedup(xs), " | ")

CompositeRender(k, xs) ==
    IF k = "tuple" THEN Join(xs, ", ") ELSE Join(xs, " | ")

\* x in TABLE, for a table keyed by classes
InTable(x, table) == x.kind = "class" /\ x.cls \in table

Min(S) == CHOOSE i \in S : \A j \in S : i <= j

\* the one-element tuple itself handed to render_atomic_type
Fallthrough_whole(v) ==
    IF Len(v.items) = 1 THEN render_atomic_type(v) ELSE ReturnsNone

\* the last test of _transpile: a one-element tuple renders its element
\* atomically; after it the function ends without a return statement
Fallthrough(v) ==
    IF Len(v.items) = 1 THEN render_atomic_type(v.items[1]) ELSE ReturnsNone

(***************************************************************************)
(* _transpile: the recursive dispatch over a raw descriptor or a tuple.    *)
(***************************************************************************)
RECURSIVE _transpile(_)
_transpile(v) ==
    IF ~v.tup THEN render_atomic_type(v)
    ELSE IF Len(v.items) = 0 THEN Raise("IndexError")
    ELSE IF v.items[1].tup THEN _transpile(v.items[1])
    ELSE IF InTable(v.items[1], COMPOSITE_TYPES) THEN
        IF Len(v.items) < 2 THEN Raise("IndexError")
        ELSE IF ~v.items[2].tup THEN Raise("TypeError")
        ELSE LET ch == v.items[2].items
                 rs == [i \in 1..Len(ch) |-> _transpile(ch[i])]
                 raised == {i \in 1..Len(ch) : rs[i].tag = "raise"}
             IN  IF raised # {} THEN rs[Min(raised)]
                 ELSE IF \E i \in 1..Len(ch) : rs[i].tag = "none" THEN Raise("TypeError")
                 ELSE Ok(CompositeRender(v.items[1].cls, [i \in 1..Len(ch) |-> rs[i].val]))
    ELSE IF InTable(v.items[1], CONTAINER_TYPES) THEN
        IF Len(v.items) < 2 THEN Raise("IndexError")
        ELSE LET r == _transpile(v.items[2])
             IN  IF r.tag = "raise" THEN r
                 ELSE Ok(ContainerRender(v.items[1].cls, r.val))
    ELSE Fallthrough(v)

(***************************************************************************)
(* The invocations of _transpile made while _transpile(v) runs, each with  *)
(* its argument and its outcome; a child after a raising child is never    *)
(* dispatched.                                                             *)
(***************************************************************************)
RECURSIVE Dispatched(_)
Dispatched(v) ==
    {[node |-> v, res |-> _transpile(v)]} \cup
    IF ~v.tup \/ Len(v.items) = 0 THEN {}
    ELSE IF v.items[1].tup THEN Dispatched(v.items[1])
    ELSE IF InTable(v.items[1], COMPOSITE_TYPES) THEN
        IF Len(v.items) < 2 \/ ~v.items[2].tup THEN {}
        ELSE LET ch == v.items[2].items
             IN  UNION {Dispatched(ch[i]) :
                        i \in {n \in 1..Len(ch) :
                               \A m \in 1..(n - 1) : _transpile(ch[m]).tag # "raise"}}
    ELSE IF InTable(v.items[1], CONTAINER_TYPES) THEN
        IF Len(v.items) < 2 THEN {} ELSE Dispatched(v.items[2])
    ELSE {}

(***************************************************************************)
(* rests.core.utils.typing_inspect: the introspection of a descriptor.     *)
(* get_origin is None for a descriptor that is not parameterized; get_args *)
(* is the tuple of children, a parameterized child being reported as the   *)
(* pair (origin, children).                                                *)
(***************************************************************************)
get_origin(x) == IF x.kind = "generic" THEN ClassObj(x.cls) ELSE NoneVal

get_args(x) == Tuple(x.items)

Pair(o, s) == Tuple(<<ClassObj(o), Tuple(s)>>)

(***************************************************************************)
(* The descriptors transpile is called with.                               *)
(***************************************************************************)
RelationClasses == {"ForeignKey", "OneToOneField", "ManyToOneRel"}

ModelClasses == {"Author", "Book"}

OtherClasses == {"NoneType", "set", "ImageField", "Field", "List", "Union", "tuple"}

Classes == (AtomicKeys \ {"None"}) \cup ModelClasses \cup OtherClasses

ValueClasses == (Classes \ (RelationClasses \cup {"Model", "NoneType", "List", "Union", "tuple"}))

AtomicDescriptors ==
    {ClassObj(c) : c \in Classes}
    \cup {Inst(c) : c \in ValueClasses}
    \cup {RelInst(c, m) : c \in RelationClasses, m \in ModelClasses}
    \cup {NoneVal}

Origins == CONTAINER_TYPES \cup COMPOSITE_TYPES \cup {"Set"}

SeqsUpTo(S, n) == UNION {[1..k -> S] : k \in 1..n}

InnerAtoms == {Inst("str"), NoneVal}

InnerChildren == {<<a>> : a \in InnerAtoms} \cup {<<a, b>> : a, b \in InnerAtoms}

ChildAtoms ==
    {Inst("str"), Inst("int"), Inst("CharField"), NoneVal,
     ClassObj("str"), ClassObj("Author")}

Children ==
    ChildAtoms \cup {Pair(o, s) : o \in {"Union", "Set"}, s \in InnerChildren}

GenericDescriptors == {Generic(o, s) : o \in Origins, s \in SeqsUpTo(Children, MaxArity)}

Descriptors == AtomicDescriptors \cup GenericDescriptors

(***************************************************************************)
(* transpile: the public entry point, one call per behaviour.              *)
(***************************************************************************)
NotReturned == [tag |-> "pending", val |-> ""]

Init ==
    /\ type_ \in Descriptors
    /\ pc = "call"
    /\ result = NotReturned
    /\ calls = {}

\* if not origin_type: return cls.render_atomic_type(type_)
TranspileAtomic ==
    /\ pc = "call"
    /\ get_origin(type_) = NoneVal
    /\ result' = render_atomic_type(type_)
    /\ calls' = {}
    /\ pc' = "done"
    /\ UNCHANGED type_

\* return cls._transpile((origin_type, child_types))
TranspileGeneric ==
    /\ pc = "call"
    /\ get_origin(type_) # NoneVal
    /\ result' = _transpile(Tuple(<<get_origin(type_), get_args(type_)>>))
    /\ calls' = Dispatched(Tuple(<<get_origin(type_), get_args(type_)>>))
    /\ pc' = "done"
    /\ UNCHANGED type_

Next == TranspileAtomic \/ TranspileGeneric

Spec == Init /\ [][Next]_vars

TypeOK ==
    /\ type_ \in Descriptors
    /\ pc \in {"call", "done"}
    /\ result.tag \in {"pending", "ok", "raise", "none"}
    /\ pc = "done" <=> result.tag # "pending"

(***************************************************************************)
(* Vocabulary of the properties.                                           *)
(***************************************************************************)
Done == pc = "done"

NoOrigin == type_.kind # "generic"

RealKeys == AtomicKeys \ {"None"}

\* d is the key k itself: the class k, or None for the key None
IsKeyItself(d, k) == IF k = "None" THEN d = NoneVal ELSE d = ClassObj(k)

\* d is a model class, or a value of one
IsModelSubtype(d) == issubclass(IF d.kind = "class" THEN d.cls ELSE type(d), "Model")

\* the rendering registered for the key k, for the descriptor d
RenderingOf(k, d) ==
    IF AtomicEntry(k).fn = "" THEN Ok(AtomicEntry(k).lit)
    ELSE CallRenderer(AtomicEntry(k), d)

\* what transpile returns for the child c on its own
RenderChild(c) == IF c.tup THEN _transpile(c) ELSE render_atomic_type(c)

RegisteredOrigins == CONTAINER_TYPES \cup COMPOSITE_TYPES

(***************************************************************************)
(* C1: a descriptor with no origin marker resolves to the first key k, in  *)
(* definition order, such that the descriptor is k itself or an instance   *)
(* of k, and when that key's renderer is a literal string transpile        *)
(* returns exactly that string: for the key class itself (the class str)   *)
(* as for a value of it.                                                   *)
(***************************************************************************)
C1_LiteralForClassOrInstance ==
    (Done /\ NoOrigin /\ type_ # NoneVal) =>
        \A k \in RealKeys :
            ( /\ IsKeyItself(type_, k) \/ isinstance(type_, k)
              /\ \A j \in RealKeys :
                    KeyIndex(j) < KeyIndex(k) =>
                        ~(IsKeyItself(type_, j) \/ isinstance(type_, j))
              /\ AtomicEntry(k).fn = "" )
            => result = Ok(AtomicEntry(k).lit)

(***************************************************************************)
(* C2: transpile(None) returns the token registered for the key None       *)
(* instead of raising the unable-to-transpile error.                       *)
(***************************************************************************)
C2_NoneRendersNull ==
    (Done /\ type_ = NoneVal) => result = Ok(AtomicEntry("None").lit)

(***************************************************************************)
(* C3: when a descriptor with no origin marker is an instance of two       *)
(* registered keys, transpile returns the rendering of the one registered  *)
(* first, never that of the later one.                                     *)
(***************************************************************************)
C3_FirstMatchWins ==
    (Done /\ NoOrigin /\ ~IsModelSubtype(type_)) =>
        \A k1, k2 \in RealKeys :
            ( /\ isinstance(type_, k1)
              /\ isinstance(type_, k2)
              /\ KeyIndex(k1) < KeyIndex(k2)
              /\ \A j \in RealKeys : KeyIndex(j) < KeyIndex(k1) => ~isinstance(type_, j) )
            => /\ result = RenderingOf(k1, type_)
               /\ RenderingOf(k2, type_) # RenderingOf(k1, type_)
                     => result # RenderingOf(k2, type_)

\* a bool value is an instance of int and of bool and renders as int does
C3_Witness ==
    Done /\ type_ = Inst("bool") /\ result = Ok(types_NUMBER)

C6_NestedUnionOfStringAndNull ==
    (Done /\ type_ = Generic("List", <<Pair("Union", <<Inst("str"), NoneVal>>)>>))
    => result = Ok(types_ARRAY \o "<" \o types_STRING \o " | " \o types_NULL \o ">")

(***************************************************************************)
(* C7: a descriptor whose origin marker is a composite key renders as the  *)
(* renderings of its children joined by the composite's separator, in the  *)
(* order given, nothing sorted and nothing dropped.                        *)
(***************************************************************************)
C7_CompositeJoin ==
    ( /\ Done
      /\ type_.kind = "generic"
      /\ type_.cls \in COMPOSITE_TYPES
      /\ \A i \in 1..Len(type_.items) : RenderChild(type_.items[i]).tag = "ok" )
    => result = Ok(Join([i \in 1..Len(type_.items) |-> RenderChild(type_.items[i]).val],
                        IF type_.cls = "Union" THEN " | " ELSE ", "))

\* a union of two equal members renders the member twice
C7_Witness ==
    /\ Done
    /\ type_ = Generic("Union", <<Inst("str"), Inst("str")>>)
    /\ result = Ok(types_STRING \o " | " \o types_STRING)

C9_FunctionRendererGetsDescriptor ==
    (Done /\ NoOrigin) =>
        /\ (type_.kind = "inst" /\ \E k \in RelationClasses : isinstance(type_, k))
              => result = Ok(type_.rel)
        /\ (type_.kind = "class" /\ issubclass(type_.cls, "Model"))
              => result = Ok(type_.cls)
        /\ IsModelSubtype(type_)
              => result = CallRenderer(AtomicEntry("Model"), type_)

\* a OneToOneField resolves through the ForeignKey key
C9_Witness ==
    Done /\ type_ = RelInst("OneToOneField", "Book") /\ result = Ok("Book")

(***************************************************************************)
(* C10: transpile, and every dispatch inside it, returns a string or       *)
(* raises; None is never returned and no container renderer is applied to  *)
(* a child that was not rendered.                                          *)
(***************************************************************************)
C10_StringOrError ==
    Done =>
        /\ result.tag \in {"ok", "raise"}
        /\ \A c \in calls : c.res.tag \in {"ok", "raise"}

====
